---- MODULE Spec2Model ----
(***************************************************************************)
(* SpeakHub voice manager (src/SpeakHub.py): join-to-create voice channels *)
(* with an in-memory ownership registry, a sqlite store and an owner       *)
(* control panel.  Every coroutine is cut at its awaits: one action is the *)
(* code that runs between two suspension points of the event loop.         *)
(***************************************************************************)
EXTENDS Integers, FiniteSets, Sequences, TLC

\* ------------------------------------------------------------------ bounds
NumMembers == 2
MaxChannels == 2
PanelChannels == 1
MaxTime == 5
MaxWall == 3
MaxViews == 2
MaxTasks == 2

\* ------------------------------------------------------- program constants
cooldown_time == 5
invite_cooldown_duration == 2

Members == 1..NumMembers
\* One automated account (member.bot) next to the human members.
Bots == {NumMembers + 1}
Actors == Members \cup Bots
Channels == 1..MaxChannels
NoChannel == 0
NoMember == 0
default_role == 0
create_voice_channel_id == MaxChannels + 1

Targets == Actors \cup {default_role}
NoOverwrite == [connect |-> "inherit", elevated |-> FALSE]
default_user_permissions == [connect |-> "allow", elevated |-> TRUE]
ConnectOnly(c) == [connect |-> c, elevated |-> FALSE]
default_channel_prefix == "prefix"
NoName == [prefix |-> "", text |-> ""]
ChannelName(prefix, text) == [prefix |-> prefix, text |-> text]
\* member.display_name.lower()
display_name(m) == ToString(m)

VARIABLES
    voice_channels,      \* registry: channel id -> owner id (a dict)
    cooldowns,           \* member id -> loop time of the last admitted attempt
    db_voice_channels,   \* rows [channel_id, owner_id]
    db_blocked_users,    \* rows [channel_id, user_id]
    db_user_invites,     \* rows [inviter_id, invited_user_id, invited_at, channel_id]
    guild_channels,      \* ids of the managed-category voice channels that exist
    next_channel_id,     \* the platform never reuses an id
    voice,               \* member id -> channel the member is connected to
    overwrites,          \* channel id -> target -> permission overwrite
    user_limit,          \* channel id -> user limit
    channel_name,        \* channel id -> name
    tasks,               \* coroutines suspended at an await
    views,               \* modals and select views a member has open
    loop_time,           \* asyncio loop clock, seconds
    wall_clock,          \* datetime.now(), hours
    admitted,            \* history: <<member, time>> of every admitted creation
    last                 \* the outcome of the handler that ran last

vars == <<voice_channels, cooldowns, db_voice_channels, db_blocked_users,
          db_user_invites, guild_channels, next_channel_id, voice, overwrites,
          user_limit, channel_name, tasks, views, loop_time, wall_clock, admitted,
          last>>

storeVars == <<db_voice_channels, db_blocked_users, db_user_invites>>
platformVars == <<guild_channels, next_channel_id, voice, overwrites, user_limit,
                  channel_name>>
clockVars == <<loop_time, wall_clock>>

Task(k, m, c, pc, t) == [kind |-> k, member |-> m, channel |-> c, pc |-> pc, target |-> t]
Outcome(op, m, c, r) == [op |-> op, actor |-> m, channel |-> c, result |-> r]
\* At most MaxTasks coroutines are suspended at a time.
Within(ts) == Cardinality(ts) <= MaxTasks

\* ------------------------------------------------------------ dict helpers
DictSet(d, k, v) == [x \in DOMAIN d \cup {k} |-> IF x = k THEN v ELSE d[x]]
DictDel(d, k) == [x \in DOMAIN d \ {k} |-> d[x]]
EmptyDict == [x \in {} |-> 0]

\* ------------------------------------------------------------------ store
Row(c, o) == [channel_id |-> c, owner_id |-> o]
BlockRow(c, u) == [channel_id |-> c, user_id |-> u]

\* A faulty DELETE without its WHERE clause.
DbDeleteChannel_every_row(rows, c) == {}

DbDeleteChannel(rows, c) == {r \in rows : r.channel_id # c}

\* A faulty UPDATE that adds the new owner's row next to the old one.
DbUpdateOwner_insert(rows, c, o) == rows \cup {Row(c, o)}

DbUpdateOwner(rows, c, o) ==
    {IF r.channel_id = c THEN Row(c, o) ELSE r : r \in rows}

\* ------------------------------------------------------------------- init
Init ==
    /\ voice_channels = EmptyDict
    /\ cooldowns = EmptyDict
    /\ db_voice_channels = {}
    /\ db_blocked_users = {}
    /\ db_user_invites = {}
    /\ guild_channels = {}
    /\ next_channel_id = 1
    /\ voice = [m \in Actors |-> NoChannel]
    /\ overwrites = [c \in Channels |-> [t \in Targets |-> NoOverwrite]]
    /\ user_limit = [c \in Channels |-> 0]
    /\ channel_name = [c \in Channels |-> NoName]
    /\ tasks = {}
    /\ views = {}
    /\ loop_time = 0
    /\ wall_clock = 0
    /\ admitted = {}
    /\ last = Outcome("init", NoMember, NoChannel, "ok")

\* --------------------------------------------------------------- cooldown
\* A faulty is_on_cooldown that still refuses when exactly cooldown_time
\* has passed.
is_on_cooldown_inclusive(cd, user_id, now) ==
    IF user_id \in DOMAIN cd /\ now - cd[user_id] <= cooldown_time
    THEN [on |-> TRUE, cooldowns |-> cd]
    ELSE [on |-> FALSE, cooldowns |-> DictSet(cd, user_id, now)]

\* A faulty is_on_cooldown that never records the attempt.
is_on_cooldown_unrecorded(cd, user_id, now) ==
    [on |-> user_id \in DOMAIN cd /\ now - cd[user_id] < cooldown_time,
     cooldowns |-> cd]

\* is_on_cooldown: the answer and the cooldown map it leaves behind.
is_on_cooldown(cd, user_id, now) ==
    IF user_id \in DOMAIN cd /\ now - cd[user_id] < cooldown_time
    THEN [on |-> TRUE, cooldowns |-> cd]
    ELSE [on |-> FALSE, cooldowns |-> DictSet(cd, user_id, now)]

\* -------------------------------------------------------- presence events
\* A faulty handler without the bot test.
Ignored_never(member) == FALSE

\* on_voice_state_update, line 193: `if member.bot: return`.
Ignored(member) == member \in Bots

\* A faulty second branch that starts the debounce for whoever leaves.
LeaveTasks_any_occupant(reg, m, before) ==
    IF ~Ignored(m) /\ before \in DOMAIN reg
    THEN {Task("destroy", m, before, "sleep", NoMember)}
    ELSE {}

\* on_voice_state_update, second branch: the recorded owner left `before`.
LeaveTasks(reg, m, before) ==
    IF ~Ignored(m) /\ before \in DOMAIN reg /\ reg[before] = m
    THEN {Task("destroy", m, before, "sleep", NoMember)}
    ELSE {}

\* Each owner-left event is a coroutine of its own: one that equals a
\* debounce already pending is told apart from it (a third joins the second).
Spawned(ts, new) ==
    {IF t \in ts THEN [t EXCEPT !.pc = "sleep_again"] ELSE t : t \in new}

\* A member joins, moves, leaves, or changes state (mute) where they are.
VoiceStateEvent(m, after) ==
    LET before == voice[m] IN
    /\ after \in guild_channels \cup {NoChannel, create_voice_channel_id}
    /\ ~(before = NoChannel /\ after = NoChannel)
    /\ voice' = [voice EXCEPT ![m] = after]
    /\ IF Ignored(m)
       THEN /\ last' = Outcome("presence", m, before, "bot")
            /\ UNCHANGED <<cooldowns, tasks, admitted>>
       ELSE IF after = create_voice_channel_id
       THEN LET cd == is_on_cooldown(cooldowns, m, loop_time) IN
            /\ cooldowns' = cd.cooldowns
            /\ IF cd.on
               THEN /\ UNCHANGED <<tasks, admitted>>
                    /\ last' = Outcome("spawner", m, NoChannel, "cooldown")
               ELSE /\ tasks' = tasks \cup
                            {Task("create", m, NoChannel, "create_channel", NoMember)}
                    /\ admitted' = admitted \cup {<<m, loop_time>>}
                    /\ last' = Outcome("spawner", m, NoChannel, "admitted")
       ELSE /\ tasks' = tasks \cup Spawned(tasks, LeaveTasks(voice_channels, m, before))
            /\ last' = Outcome("presence", m, before,
                               IF LeaveTasks(voice_channels, m, before) # {}
                               THEN "owner_left" ELSE "ignored")
            /\ UNCHANGED <<cooldowns, admitted>>
    /\ Within(tasks')
    /\ UNCHANGED <<voice_channels, storeVars, guild_channels, next_channel_id,
                   overwrites, user_limit, channel_name, views, clockVars>>

\* --------------------------------------------------------------- creation
\* create_voice_channel up to `await category.create_voice_channel(...)`.
CreateChannel(t, room) ==
    /\ t \in tasks /\ t.kind = "create" /\ t.pc = "create_channel"
    /\ IF next_channel_id <= room
       THEN /\ guild_channels' = guild_channels \cup {next_channel_id}
            /\ next_channel_id' = next_channel_id + 1
            /\ overwrites' = [overwrites EXCEPT ![next_channel_id] =
                   [x \in Targets |->
                       IF x = t.member THEN default_user_permissions
                       ELSE IF x = default_role THEN ConnectOnly("allow")
                       ELSE NoOverwrite]]
            /\ channel_name' = [channel_name EXCEPT ![next_channel_id] =
                   ChannelName(default_channel_prefix, display_name(t.member))]
            /\ tasks' = (tasks \ {t}) \cup
                   {Task("create", t.member, next_channel_id, "move", NoMember)}
            /\ last' = Outcome("create", t.member, next_channel_id, "channel_created")
       ELSE \* the category is full, the platform refuses: the except clause logs it
            /\ tasks' = tasks \ {t}
            /\ last' = Outcome("create", t.member, NoChannel, "platform_error")
            /\ UNCHANGED <<guild_channels, next_channel_id, overwrites, channel_name>>
    /\ UNCHANGED <<voice_channels, cooldowns, storeVars, voice, user_limit, views,
                   clockVars, admitted>>

\* `await member.move_to(new_channel)`, then the INSERT, the commit and the
\* registry entry, which run without a suspension in between.
MoveAndRegister(t) ==
    /\ t \in tasks /\ t.kind = "create" /\ t.pc = "move"
    /\ IF voice[t.member] # NoChannel /\ t.channel \in guild_channels
       THEN /\ voice' = [voice EXCEPT ![t.member] = t.channel]
            /\ db_voice_channels' = db_voice_channels \cup {Row(t.channel, t.member)}
            /\ voice_channels' = DictSet(voice_channels, t.channel, t.member)
            /\ tasks' = (tasks \ {t}) \cup
                   Spawned(tasks, LeaveTasks(voice_channels, t.member, voice[t.member]))
            /\ last' = Outcome("create", t.member, t.channel, "registered")
       ELSE \* move_to raises (member not connected, channel gone): logged
            /\ tasks' = tasks \ {t}
            /\ last' = Outcome("create", t.member, t.channel, "move_failed")
            /\ UNCHANGED <<voice, db_voice_channels, voice_channels>>
    /\ UNCHANGED <<cooldowns, db_blocked_users, db_user_invites, guild_channels,
                   next_channel_id, overwrites, user_limit, channel_name, views, clockVars, admitted>>

\* ------------------------------------------------------------ destruction
\* The platform deletes a channel: its occupants are disconnected and each
\* disconnect is delivered to on_voice_state_update.
Occupants(c) == {m \in Actors : voice[m] = c}
DisconnectTasks(reg, c) ==
    UNION {LeaveTasks(reg, m, c) : m \in Occupants(c)}

\* A faulty check that takes the owner for absent whatever the voice state.
OwnerAbsent_unchecked(vc, m, c) == TRUE

\* Line 216: `member.voice is None or member.voice.channel != before.channel`.
OwnerAbsent(vc, m, c) == vc[m] = NoChannel \/ vc[m] # c

\* The debounce expires: line 216, then delete_voice_channel up to
\* `await channel.delete()`.  When the store raises at its first statement
\* (store_ok FALSE) the except clause of line 298 logs it and the coroutine
\* ends.
WakeDestroy(t, store_ok) ==
    /\ t \in tasks /\ t.kind = "destroy" /\ t.pc \in {"sleep", "sleep_again"}
    /\ IF ~OwnerAbsent(voice, t.member, t.channel)
       THEN /\ tasks' = tasks \ {t}
            /\ last' = Outcome("destroy", t.member, t.channel, "abandoned")
            /\ UNCHANGED <<db_voice_channels, db_blocked_users, voice_channels>>
       ELSE IF store_ok
       THEN /\ db_voice_channels' = DbDeleteChannel(db_voice_channels, t.channel)
            /\ db_blocked_users' = DbDeleteChannel(db_blocked_users, t.channel)
            /\ voice_channels' = DictDel(voice_channels, t.channel)
            /\ tasks' = (tasks \ {t}) \cup
                   {Task("destroy", NoMember, t.channel,
                         IF t.pc = "sleep" THEN "delete" ELSE "delete_again", NoMember)}
            /\ last' = Outcome("destroy", t.member, t.channel, "rows_deleted")
       ELSE /\ tasks' = tasks \ {t}
            /\ last' = Outcome("destroy", t.member, t.channel, "store_error")
            /\ UNCHANGED <<db_voice_channels, db_blocked_users, voice_channels>>
    /\ UNCHANGED <<cooldowns, db_user_invites, platformVars, views, clockVars, admitted>>

\* `await channel.delete()` completes or raises NotFound (logged).
FinishDelete(t) ==
    /\ t \in tasks /\ t.kind = "destroy" /\ t.pc \in {"delete", "delete_again"}
    /\ IF t.channel \in guild_channels
       THEN /\ guild_channels' = guild_channels \ {t.channel}
            /\ voice' = [m \in Actors |->
                   IF voice[m] = t.channel THEN NoChannel ELSE voice[m]]
            /\ overwrites' = [overwrites EXCEPT ![t.channel] =
                   [x \in Targets |-> NoOverwrite]]
            /\ user_limit' = [user_limit EXCEPT ![t.channel] = 0]
            /\ channel_name' = [channel_name EXCEPT ![t.channel] = NoName]
            /\ tasks' = (tasks \ {t}) \cup
                   Spawned(tasks, DisconnectTasks(voice_channels, t.channel))
            /\ last' = Outcome("destroy", t.member, t.channel, "channel_deleted")
       ELSE /\ tasks' = tasks \ {t}
            /\ last' = Outcome("destroy", t.member, t.channel, "not_found")
            /\ UNCHANGED <<guild_channels, voice, overwrites, user_limit, channel_name>>
    /\ UNCHANGED <<voice_channels, cooldowns, storeVars, next_channel_id, views,
                   clockVars, admitted>>

\* A moderator deletes a managed channel by hand.
ExternalDelete(c) ==
    /\ c \in guild_channels
    /\ guild_channels' = guild_channels \ {c}
    /\ voice' = [m \in Actors |-> IF voice[m] = c THEN NoChannel ELSE voice[m]]
    /\ overwrites' = [overwrites EXCEPT ![c] = [x \in Targets |-> NoOverwrite]]
    /\ user_limit' = [user_limit EXCEPT ![c] = 0]
    /\ channel_name' = [channel_name EXCEPT ![c] = NoName]
    /\ tasks' = tasks \cup Spawned(tasks, DisconnectTasks(voice_channels, c))
    /\ Within(tasks')
    /\ last' = Outcome("external_delete", NoMember, c, "ok")
    /\ UNCHANGED <<voice_channels, cooldowns, storeVars, next_channel_id, views,
                   clockVars, admitted>>

\* ---------------------------------------------------------- reconciliation
\* A faulty pass that repairs a single absent row and stops.
load_voice_channels_one_row(rows, blocked, reg, live) ==
    LET absent == {r \in rows : r.channel_id \notin live}
        gone == IF absent = {} THEN {} ELSE {CHOOSE r \in absent : TRUE}
        kept == rows \ gone
    IN [rows |-> kept,
        blocked |-> {b \in blocked : \A r \in gone : b.channel_id # r.channel_id},
        reg |-> [c \in DOMAIN reg \cup {r.channel_id : r \in kept} |->
                    IF \E r \in kept : r.channel_id = c
                    THEN (CHOOSE r \in kept : r.channel_id = c).owner_id
                    ELSE reg[c]]]

\* load_voice_channels: one pass over the rows; it has no await.
load_voice_channels(rows, blocked, reg, live) ==
    LET gone == {r \in rows : r.channel_id \notin live}
        kept == rows \ gone
    IN [rows |-> kept,
        blocked |-> {b \in blocked : \A r \in gone : b.channel_id # r.channel_id},
        reg |-> [c \in DOMAIN reg \cup {r.channel_id : r \in kept} |->
                    IF \E r \in kept : r.channel_id = c
                    THEN (CHOOSE r \in kept : r.channel_id = c).owner_id
                    ELSE reg[c]]]

OnReady ==
    LET r == load_voice_channels(db_voice_channels, db_blocked_users,
                                 voice_channels, guild_channels) IN
    /\ db_voice_channels' = r.rows
    /\ db_blocked_users' = r.blocked
    /\ voice_channels' = r.reg
    /\ last' = Outcome("on_ready", NoMember, NoChannel,
                       IF r.rows # db_voice_channels THEN "repaired" ELSE "clean")
    /\ UNCHANGED <<cooldowns, db_user_invites, platformVars, tasks, views,
                   clockVars, admitted>>

\* load_voice_channels when a DELETE raises: the rows in `done` were handled
\* before the exception, which ends the loop and skips the commit; the
\* statements already executed stay in the connection's open transaction.
load_voice_channels_until(rows, blocked, reg, live, done) ==
    LET r == load_voice_channels(done, blocked, reg, live)
    IN [rows |-> (rows \ done) \cup r.rows, blocked |-> r.blocked, reg |-> r.reg]

\* on_ready with the repair of the absent row `bad` raising.
OnReadyFault(bad, done) ==
    /\ bad \in db_voice_channels /\ bad.channel_id \notin guild_channels
    /\ done \subseteq db_voice_channels \ {bad}
    /\ LET r == load_voice_channels_until(db_voice_channels, db_blocked_users,
                                          voice_channels, guild_channels, done) IN
       /\ db_voice_channels' = r.rows
       /\ db_blocked_users' = r.blocked
       /\ voice_channels' = r.reg
    /\ last' = Outcome("on_ready", NoMember, bad.channel_id, "aborted")
    /\ UNCHANGED <<cooldowns, db_user_invites, platformVars, tasks, views,
                   clockVars, admitted>>

\* ------------------------------------------------------------ permissions
\* channel.set_permissions(target, **perms) replaces the target's overwrite.
set_permissions(ow, c, target, perm) == [ow EXCEPT ![c][target] = perm]

\* ---------------------------------------------------------- control panel
View(k, u, c, ms) == [kind |-> k, user |-> u, channel_id |-> c, members |-> ms]

is_channel_owner(reg, user_id, channel_id) ==
    channel_id \in DOMAIN reg /\ reg[channel_id] = user_id

\* A faulty callback that tests ownership before the registry lookup.
ButtonCheck_owner_first(vc, reg, live, user) ==
    IF vc[user] = NoChannel THEN "not_in_voice"
    ELSE IF ~is_channel_owner(reg, user, vc[user]) THEN "not_owner"
    ELSE IF vc[user] \notin DOMAIN reg THEN "not_managed"
    ELSE IF vc[user] \notin live THEN "gone"
    ELSE "ok"

\* VoiceChannelButton.callback: the first check that fails, or "ok".
ButtonCheck(vc, reg, live, user) ==
    IF vc[user] = NoChannel THEN "not_in_voice"
    ELSE IF vc[user] \notin DOMAIN reg THEN "not_managed"
    ELSE IF ~is_channel_owner(reg, user, vc[user]) THEN "not_owner"
    ELSE IF vc[user] \notin live THEN "gone"
    ELSE "ok"

coreVars == <<voice_channels, cooldowns, storeVars, platformVars, tasks,
              clockVars, admitted>>

\* A button whose check fails answers with an error embed and returns.
Rejected(op, u) ==
    /\ ButtonCheck(voice, voice_channels, guild_channels, u) # "ok"
    /\ last' = Outcome(op, u, voice[u],
                       ButtonCheck(voice, voice_channels, guild_channels, u))
    /\ UNCHANGED <<coreVars, views>>

Accepted(u) == ButtonCheck(voice, voice_channels, guild_channels, u) = "ok"

\* A faulty toggle that unlocks by restoring the explicit allow of creation.
NewLockState_restore_allow(current_state) ==
    IF current_state = "deny" THEN "allow" ELSE "deny"

\* Line 578: `new_state = None if current_state is False else False`.
NewLockState(current_state) ==
    IF current_state = "deny" THEN "inherit" ELSE "deny"

\* LockChannelButton.callback
PressLock(u) ==
    \/ Rejected("lock", u)
    \/ /\ Accepted(u)
       /\ LET c == voice[u]
              current_state == overwrites[c][default_role].connect
              new_state == NewLockState(current_state)
          IN /\ overwrites' = set_permissions(overwrites, c, default_role,
                                              ConnectOnly(new_state))
             /\ last' = Outcome("lock", u, c,
                                IF new_state = "deny" THEN "locked" ELSE "unlocked")
       /\ UNCHANGED <<voice_channels, cooldowns, storeVars, guild_channels,
                      next_channel_id, voice, user_limit, channel_name, tasks, views, clockVars,
                      admitted>>

\* LimitMembersButton.callback
PressLimit(u) ==
    \/ Rejected("limit", u)
    \/ /\ Accepted(u)
       /\ Cardinality(views) < MaxViews
       /\ views' = views \cup {View("limit_modal", u, voice[u], {})}
       /\ last' = Outcome("limit", u, voice[u], "modal")
       /\ UNCHANGED coreVars

\* int(self.limit.value) for a text of one or two characters (min_length 1,
\* max_length 2): decimal digits with an optional sign or surrounding blank.
Digits == <<"0", "1", "2", "3", "4", "5", "6", "7", "8", "9">>
IsDigit(ch) == \E i \in 1..10 : Digits[i] = ch
DigitValue(ch) == (CHOOSE i \in 1..10 : Digits[i] = ch) - 1
IsNumeric(txt) ==
    \/ Len(txt) = 1 /\ IsDigit(txt[1])
    \/ Len(txt) = 2 /\ IsDigit(txt[2]) /\ (IsDigit(txt[1]) \/ txt[1] \in {"-", "+", " "})
    \/ Len(txt) = 2 /\ IsDigit(txt[1]) /\ txt[2] = " "
IntValue(txt) ==
    IF Len(txt) = 1 THEN DigitValue(txt[1])
    ELSE IF txt[1] = "-" THEN 0 - DigitValue(txt[2])
    ELSE IF txt[1] \in {"+", " "} THEN DigitValue(txt[2])
    ELSE IF txt[2] = " " THEN DigitValue(txt[1])
    ELSE 10 * DigitValue(txt[1]) + DigitValue(txt[2])

\* A faulty range check without the lower bound.
LimitInRange_no_lower(limit_value) == ~(limit_value > 99)

\* Line 698: `if limit_value < 0 or limit_value > 99` rejects.
LimitInRange(limit_value) == ~(limit_value < 0 \/ limit_value > 99)

\* LimitMembersModal.on_submit
SubmitLimit(v, txt) ==
    /\ v \in views /\ v.kind = "limit_modal"
    /\ views' = views \ {v}
    /\ IF ~IsNumeric(txt)
       THEN /\ last' = Outcome("limit", v.user, v.channel_id, "not_a_number")
            /\ UNCHANGED user_limit
       ELSE IF ~LimitInRange(IntValue(txt))
       THEN /\ last' = Outcome("limit", v.user, v.channel_id, "out_of_range")
            /\ UNCHANGED user_limit
       ELSE IF v.channel_id \notin guild_channels
       THEN /\ last' = Outcome("limit", v.user, v.channel_id, "gone")
            /\ UNCHANGED user_limit
       ELSE /\ user_limit' = [user_limit EXCEPT ![v.channel_id] = IntValue(txt)]
            /\ last' = Outcome("limit", v.user, v.channel_id, "limit_set")
    /\ UNCHANGED <<voice_channels, cooldowns, storeVars, guild_channels,
                   next_channel_id, voice, overwrites, channel_name, tasks, clockVars,
                   admitted>>

\* TransferOwnerButton.callback
PressTransfer(u) ==
    \/ Rejected("transfer", u)
    \/ /\ Accepted(u)
       /\ LET members == Occupants(voice[u]) \ {u} IN
          IF members = {}
          THEN /\ last' = Outcome("transfer", u, voice[u], "no_members")
               /\ UNCHANGED views
          ELSE /\ Cardinality(views) < MaxViews
               /\ views' = views \cup {View("transfer_select", u, voice[u], members)}
               /\ last' = Outcome("transfer", u, voice[u], "select")
       /\ UNCHANGED coreVars

\* MemberSelectView.select_callback, action_type "transfer", up to the second
\* await: the new owner's overwrite is written.
SelectTransfer(v, selected_id) ==
    /\ v \in views /\ v.kind = "transfer_select"
    /\ selected_id \in v.members
    /\ IF v.channel_id \notin guild_channels
       THEN /\ last' = Outcome("transfer", v.user, v.channel_id, "gone")
            /\ UNCHANGED <<overwrites, tasks>>
       ELSE /\ overwrites' = set_permissions(overwrites, v.channel_id, selected_id,
                                             default_user_permissions)
            /\ tasks' = tasks \cup
                   {Task("transfer", v.user, v.channel_id, "demote", selected_id)}
            /\ last' = Outcome("transfer", v.user, v.channel_id, "granted")
    /\ Within(tasks')
    /\ UNCHANGED <<voice_channels, cooldowns, storeVars, guild_channels,
                   next_channel_id, voice, user_limit, channel_name, views, clockVars, admitted>>

\* Lines 1014-1020: the UPDATE, the commit and the registry assignment; an
\* sqlite error leaves the handler before the registry is written.
TransferCommit(rows, reg, c, new_owner, store_ok) ==
    IF store_ok
    THEN [rows |-> DbUpdateOwner(rows, c, new_owner), reg |-> DictSet(reg, c, new_owner)]
    ELSE [rows |-> rows, reg |-> reg]

\* The old owner's overwrite is written (second await), then the commit.
TransferFinish(t, store_ok) ==
    /\ t \in tasks /\ t.kind = "transfer"
    /\ tasks' = tasks \ {t}
    /\ IF t.channel \notin guild_channels
       THEN \* set_permissions raises NotFound
            /\ last' = Outcome("transfer", t.member, t.channel, "platform_error")
            /\ UNCHANGED <<overwrites, db_voice_channels, voice_channels>>
       ELSE LET r == TransferCommit(db_voice_channels, voice_channels, t.channel,
                                    t.target, store_ok) IN
            /\ overwrites' = set_permissions(overwrites, t.channel, t.member,
                                             ConnectOnly("allow"))
            /\ db_voice_channels' = r.rows
            /\ voice_channels' = r.reg
            /\ last' = Outcome("transfer", t.member, t.channel,
                               IF store_ok THEN "transferred" ELSE "store_error")
    /\ UNCHANGED <<cooldowns, db_blocked_users, db_user_invites, guild_channels,
                   next_channel_id, voice, user_limit, channel_name, views, clockVars, admitted>>

\* RenameChannelButton.callback
PressRename(u) ==
    \/ Rejected("rename", u)
    \/ /\ Accepted(u)
       /\ Cardinality(views) < MaxViews
       /\ views' = views \cup {View("rename_modal", u, voice[u], {})}
       /\ last' = Outcome("rename", u, voice[u], "modal")
       /\ UNCHANGED coreVars

\* RenameChannelModal.on_submit: channel.edit(name=prefix + text).
SubmitRename(v, txt) ==
    /\ v \in views /\ v.kind = "rename_modal"
    /\ views' = views \ {v}
    /\ IF v.channel_id \notin guild_channels
       THEN /\ last' = Outcome("rename", v.user, v.channel_id, "gone")
            /\ UNCHANGED channel_name
       ELSE /\ channel_name' = [channel_name EXCEPT ![v.channel_id] =
                   ChannelName(default_channel_prefix, txt)]
            /\ last' = Outcome("rename", v.user, v.channel_id, "renamed")
    /\ UNCHANGED <<voice_channels, cooldowns, storeVars, guild_channels,
                   next_channel_id, voice, overwrites, user_limit, tasks, clockVars,
                   admitted>>

\* KickMemberButton.callback
PressKick(u) ==
    \/ Rejected("kick", u)
    \/ /\ Accepted(u)
       /\ LET members == Occupants(voice[u]) \ {u} IN
          IF members = {}
          THEN /\ last' = Outcome("kick", u, voice[u], "no_members")
               /\ UNCHANGED views
          ELSE /\ Cardinality(views) < MaxViews
               /\ views' = views \cup {View("kick_select", u, voice[u], members)}
               /\ last' = Outcome("kick", u, voice[u], "select")
       /\ UNCHANGED coreVars

\* A faulty kick that also puts the member on the block list.
SelectKick_and_block(v, selected_id) ==
    /\ v \in views /\ v.kind = "kick_select"
    /\ selected_id \in v.members
    /\ IF v.channel_id \notin guild_channels
       THEN /\ last' = Outcome("kick", v.user, v.channel_id, "gone")
            /\ UNCHANGED <<voice, tasks, db_blocked_users>>
       ELSE IF voice[selected_id] = v.channel_id
       THEN /\ voice' = [voice EXCEPT ![selected_id] = NoChannel]
            /\ db_blocked_users' = db_blocked_users \cup {[channel_id |-> v.channel_id,
                                                           user_id |-> selected_id]}
            /\ tasks' = tasks \cup
                   Spawned(tasks, LeaveTasks(voice_channels, selected_id, v.channel_id))
            /\ last' = Outcome("kick", selected_id, v.channel_id, "kicked")
       ELSE /\ last' = Outcome("kick", selected_id, v.channel_id, "not_in_channel")
            /\ UNCHANGED <<voice, tasks, db_blocked_users>>
    /\ Within(tasks')
    /\ UNCHANGED <<voice_channels, cooldowns, db_voice_channels, db_user_invites,
                   guild_channels, next_channel_id, overwrites, user_limit,
                   channel_name, views, clockVars, admitted>>

\* MemberSelectView.select_callback, action_type "kick": member.move_to(None)
\* when the member sits in the channel; the disconnect is delivered to
\* on_voice_state_update.
SelectKick(v, selected_id) ==
    /\ v \in views /\ v.kind = "kick_select"
    /\ selected_id \in v.members
    /\ IF v.channel_id \notin guild_channels
       THEN /\ last' = Outcome("kick", v.user, v.channel_id, "gone")
            /\ UNCHANGED <<voice, tasks>>
       ELSE IF voice[selected_id] = v.channel_id
       THEN /\ voice' = [voice EXCEPT ![selected_id] = NoChannel]
            /\ tasks' = tasks \cup
                   Spawned(tasks, LeaveTasks(voice_channels, selected_id, v.channel_id))
            /\ last' = Outcome("kick", selected_id, v.channel_id, "kicked")
       ELSE /\ last' = Outcome("kick", selected_id, v.channel_id, "not_in_channel")
            /\ UNCHANGED <<voice, tasks>>
    /\ Within(tasks')
    /\ UNCHANGED <<voice_channels, cooldowns, storeVars, guild_channels,
                   next_channel_id, overwrites, user_limit, channel_name, views, clockVars, admitted>>

\* A view times out or is dismissed.
CloseView(v) ==
    /\ v \in views
    /\ views' = views \ {v}
    /\ UNCHANGED <<coreVars, last>>

\* ------------------------------------------------------------- block list
get_blocked_users(blocked, c) == {b.user_id : b \in {x \in blocked : x.channel_id = c}}

\* block_user: INSERT OR IGNORE, then the overwrite it writes.
block_user_rows(blocked, c, u) == blocked \cup {BlockRow(c, u)}
\* A faulty block_user that leaves an explicit allow alone.
block_user_perms_keep_allow(ow, c, u) ==
    IF ow[c][u].connect = "allow" THEN ow
    ELSE set_permissions(ow, c, u, ConnectOnly("deny"))

block_user_perms(ow, c, u) == set_permissions(ow, c, u, ConnectOnly("deny"))

\* unblock_user: DELETE, then the overwrite it writes.
unblock_user_rows(blocked, c, u) == blocked \ {BlockRow(c, u)}
unblock_user_perms(ow, c, u) == set_permissions(ow, c, u, ConnectOnly("allow"))

\* BlockUserButton.callback
PressBlock(u) ==
    \/ Rejected("block", u)
    \/ /\ Accepted(u)
       /\ Cardinality(views) < MaxViews
       /\ views' = views \cup {View("block_view", u, voice[u],
                                    get_blocked_users(db_blocked_users, voice[u]))}
       /\ last' = Outcome("block", u, voice[u], "view")
       /\ UNCHANGED coreVars

\* AddBlockButton.callback
AddBlock(v) ==
    /\ v \in views /\ v.kind = "block_view"
    /\ Cardinality(views) < MaxViews
    /\ views' = views \cup {View("block_modal", v.user, v.channel_id, {})}
    /\ last' = Outcome("block", v.user, v.channel_id, "modal")
    /\ UNCHANGED coreVars

\* RemoveBlockButton.callback; UnblockUserView reads the channel's guild.
RemoveBlock(v) ==
    /\ v \in views /\ v.kind = "block_view"
    /\ v.members # {}
    /\ IF v.channel_id \in guild_channels
       THEN /\ Cardinality(views) < MaxViews
            /\ views' = views \cup
                   {View("unblock_select", v.user, v.channel_id, v.members)}
            /\ last' = Outcome("unblock", v.user, v.channel_id, "select")
       ELSE /\ last' = Outcome("unblock", v.user, v.channel_id, "gone")
            /\ UNCHANGED views
    /\ UNCHANGED coreVars

\* BlockUserModal.on_submit and block_user up to its first await.
SubmitBlock(v, user) ==
    /\ v \in views /\ v.kind = "block_modal"
    /\ views' = views \ {v}
    /\ IF user = v.user
       THEN /\ last' = Outcome("block", v.user, v.channel_id, "self")
            /\ UNCHANGED <<db_blocked_users, tasks>>
       ELSE /\ db_blocked_users' = block_user_rows(db_blocked_users, v.channel_id, user)
            /\ IF v.channel_id \in guild_channels
               THEN tasks' = tasks \cup
                        {Task("block", v.user, v.channel_id, "deny", user)}
               ELSE UNCHANGED tasks
            /\ last' = Outcome("block", v.user, v.channel_id, "row_inserted")
    /\ Within(tasks')
    /\ UNCHANGED <<voice_channels, cooldowns, db_voice_channels, db_user_invites,
                   platformVars, clockVars, admitted>>

\* block_user after the INSERT: the overwrite, then move_to(None) when the
\* member sits in the channel.
BlockFinish(t) ==
    /\ t \in tasks /\ t.kind = "block"
    /\ IF t.channel \notin guild_channels
       THEN /\ tasks' = tasks \ {t}
            /\ last' = Outcome("block", t.member, t.channel, "platform_error")
            /\ UNCHANGED <<overwrites, voice>>
       ELSE /\ overwrites' = block_user_perms(overwrites, t.channel, t.target)
            /\ IF voice[t.target] = t.channel
               THEN /\ voice' = [voice EXCEPT ![t.target] = NoChannel]
                    /\ tasks' = (tasks \ {t}) \cup
                           Spawned(tasks, LeaveTasks(voice_channels, t.target, t.channel))
               ELSE /\ tasks' = tasks \ {t}
                    /\ UNCHANGED voice
            /\ last' = Outcome("block", t.target, t.channel, "blocked")
    /\ UNCHANGED <<voice_channels, cooldowns, storeVars, guild_channels,
                   next_channel_id, user_limit, channel_name, views, clockVars, admitted>>

\* UnblockUserView.select_callback and unblock_user up to its await.
SelectUnblock(v, selected_id) ==
    /\ v \in views /\ v.kind = "unblock_select"
    /\ selected_id \in v.members
    /\ db_blocked_users' = unblock_user_rows(db_blocked_users, v.channel_id, selected_id)
    /\ IF v.channel_id \in guild_channels
       THEN tasks' = tasks \cup
                {Task("unblock", v.user, v.channel_id, "allow", selected_id)}
       ELSE UNCHANGED tasks
    /\ Within(tasks')
    /\ last' = Outcome("unblock", v.user, v.channel_id, "row_deleted")
    /\ UNCHANGED <<voice_channels, cooldowns, db_voice_channels, db_user_invites,
                   platformVars, views, clockVars, admitted>>

UnblockFinish(t) ==
    /\ t \in tasks /\ t.kind = "unblock"
    /\ tasks' = tasks \ {t}
    /\ IF t.channel \notin guild_channels
       THEN /\ last' = Outcome("unblock", t.member, t.channel, "platform_error")
            /\ UNCHANGED overwrites
       ELSE /\ overwrites' = unblock_user_perms(overwrites, t.channel, t.target)
            /\ last' = Outcome("unblock", t.target, t.channel, "unblocked")
    /\ UNCHANGED <<voice_channels, cooldowns, storeVars, guild_channels,
                   next_channel_id, voice, user_limit, channel_name, views, clockVars, admitted>>

\* ---------------------------------------------------------------- invites
InviteRow(i, j, at, c) ==
    [inviter_id |-> i, invited_user_id |-> j, invited_at |-> at, channel_id |-> c]

SameTriple(r, i, j, c) ==
    r.inviter_id = i /\ r.invited_user_id = j /\ r.channel_id = c

\* check_invite_cooldown: the newest row of the triple, if any, against now.
check_invite_cooldown(rows, i, j, c, now) ==
    LET found == {r \in rows : SameTriple(r, i, j, c)} IN
    IF found = {} THEN FALSE
    ELSE LET newest == CHOOSE r \in found : \A x \in found : x.invited_at <= r.invited_at
         IN now - newest.invited_at < invite_cooldown_duration

\* save_invite_timestamp: the INSERT runs against UNIQUE(inviter_id,
\* invited_user_id, channel_id); the IntegrityError is caught and logged.
save_invite_timestamp(rows, i, j, c, now) ==
    IF \E r \in rows : SameTriple(r, i, j, c)
    THEN rows
    ELSE rows \cup {InviteRow(i, j, now, c)}

\* InviteUserButton.callback
PressInvite(u) ==
    \/ Rejected("invite", u)
    \/ /\ Accepted(u)
       /\ Cardinality(views) < MaxViews
       /\ views' = views \cup {View("invite_modal", u, voice[u], {})}
       /\ last' = Outcome("invite", u, voice[u], "modal")
       /\ UNCHANGED coreVars

\* A faulty on_submit without the block-list test.
InviteCheck_no_block_test(v, user) ==
    IF user = v.user THEN "self"
    ELSE IF check_invite_cooldown(db_user_invites, v.user, user, v.channel_id, wall_clock)
    THEN "rate_limited"
    ELSE IF v.channel_id \notin guild_channels THEN "gone"
    ELSE "ok"

\* InviteUserModal.on_submit up to `await channel.set_permissions(...)`.
InviteCheck(v, user) ==
    IF user = v.user THEN "self"
    ELSE IF check_invite_cooldown(db_user_invites, v.user, user, v.channel_id, wall_clock)
    THEN "rate_limited"
    ELSE IF v.channel_id \notin guild_channels THEN "gone"
    ELSE IF user \in get_blocked_users(db_blocked_users, v.channel_id) THEN "blocked"
    ELSE "ok"

\* Two submissions of the same triple are two coroutines: the second is
\* told apart from the one already waiting at set_permissions.
InviteTask(ts, i, c, j) ==
    IF Task("invite", i, c, "grant", j) \in ts
    THEN Task("invite", i, c, "grant_again", j)
    ELSE Task("invite", i, c, "grant", j)

SubmitInvite(v, user) ==
    /\ v \in views /\ v.kind = "invite_modal"
    /\ views' = views \ {v}
    /\ IF InviteCheck(v, user) = "ok"
       THEN tasks' = tasks \cup {InviteTask(tasks, v.user, v.channel_id, user)}
       ELSE UNCHANGED tasks
    /\ Within(tasks')
    /\ last' = Outcome("invite", v.user, v.channel_id, InviteCheck(v, user))
    /\ UNCHANGED <<voice_channels, cooldowns, storeVars, platformVars, clockVars,
                   admitted>>

\* The overwrite is written, then save_invite_timestamp and the success embed.
InviteFinish(t) ==
    /\ t \in tasks /\ t.kind = "invite"
    /\ tasks' = tasks \ {t}
    /\ IF t.channel \notin guild_channels
       THEN /\ last' = Outcome("invite", t.member, t.channel, "unexpected_error")
            /\ UNCHANGED <<overwrites, db_user_invites>>
       ELSE /\ overwrites' = set_permissions(overwrites, t.channel, t.target,
                                             ConnectOnly("allow"))
            /\ db_user_invites' = save_invite_timestamp(db_user_invites, t.member,
                                       t.target, t.channel, wall_clock)
            /\ last' = Outcome("invite", t.member, t.channel, "invited")
    /\ UNCHANGED <<voice_channels, cooldowns, db_voice_channels, db_blocked_users,
                   guild_channels, next_channel_id, voice, user_limit, channel_name, views,
                   clockVars, admitted>>

WallTick ==
    /\ wall_clock < MaxWall
    /\ wall_clock' = wall_clock + 1
    /\ UNCHANGED <<voice_channels, cooldowns, storeVars, platformVars, tasks, views,
                   loop_time, admitted, last>>

\* ------------------------------------------------------------------ clocks
Tick ==
    /\ loop_time < MaxTime
    /\ loop_time' = loop_time + 1
    /\ UNCHANGED <<voice_channels, cooldowns, storeVars, platformVars, tasks, views,
                   wall_clock, admitted, last>>

\* ------------------------------------------------------------------- specs
AnyChannel == Channels \cup {NoChannel, create_voice_channel_id}
LimitTexts == {<<"0">>, <<"7">>, <<"9", "9">>, <<"-", "1">>, <<" ", "5">>, <<"x">>}

Presence(who) == \E m \in who, a \in AnyChannel : VoiceStateEvent(m, a)

Coroutines(room) ==
    \/ \E t \in tasks : CreateChannel(t, room)
    \/ \E t \in tasks : MoveAndRegister(t)
    \/ \E t \in tasks : WakeDestroy(t, TRUE)
    \/ \E t \in tasks : FinishDelete(t)

Lifecycle(room) == Presence(Members) \/ Coroutines(room)

Reconcile ==
    \/ \E c \in Channels : ExternalDelete(c)
    \/ OnReady

Transfer ==
    \/ \E u \in Members : PressTransfer(u)
    \/ \E v \in views, m \in Actors : SelectTransfer(v, m)
    \/ \E t \in tasks, ok \in BOOLEAN : TransferFinish(t, ok)
    \/ \E v \in views : CloseView(v)

Kick ==
    \/ \E u \in Members : PressKick(u)
    \/ \E v \in views, m \in Actors : SelectKick(v, m)

RenameTexts == {"den"}

Rename ==
    \/ \E u \in Members : PressRename(u)
    \/ \E v \in views, txt \in RenameTexts : SubmitRename(v, txt)

Limit(texts) ==
    \/ \E u \in Members : PressLimit(u)
    \/ \E v \in views, txt \in texts : SubmitLimit(v, txt)

Block ==
    \/ \E u \in Members : PressBlock(u)
    \/ \E v \in views : AddBlock(v)
    \/ \E v \in views, u \in Members : SubmitBlock(v, u)
    \/ \E t \in tasks : BlockFinish(t)

Unblock ==
    \/ \E v \in views : RemoveBlock(v)
    \/ \E v \in views, u \in Members : SelectUnblock(v, u)
    \/ \E t \in tasks : UnblockFinish(t)

BlockList == Block \/ Unblock

Invite ==
    \/ \E u \in Members : PressInvite(u)
    \/ \E v \in views, u \in Members : SubmitInvite(v, u)
    \/ \E t \in tasks : InviteFinish(t)

\* Creation, destruction, reconciliation and ownership transfer.
Next == Lifecycle(PanelChannels) \/ Reconcile \/ Transfer

Spec == Init /\ [][Next]_vars

\* The panel's buttons and the limit modal.
ButtonsNext ==
    \/ Lifecycle(PanelChannels)
    \/ \E u \in Members : PressLock(u)
    \/ Limit(LimitTexts)
    \/ \E v \in views : CloseView(v)

SpecButtons == Init /\ [][ButtonsNext]_vars

\* A transfer next to a modal that was opened before it.
StaleNext == Lifecycle(PanelChannels) \/ Transfer \/ Limit({<<"7">>})

SpecStale == Init /\ [][StaleNext]_vars

\* Block and unblock.
AccessNext ==
    \/ Lifecycle(PanelChannels)
    \/ BlockList
    \/ \E v \in views : CloseView(v)

SpecAccess == Init /\ [][AccessNext]_vars

\* Invites under the wall clock.
InviteNext ==
    \/ Lifecycle(PanelChannels)
    \/ Invite
    \/ WallTick

SpecInvite == Init /\ [][InviteNext]_vars

\* Creation and destruction under the loop clock.
CooldownNext == Lifecycle(PanelChannels) \/ Tick

SpecCooldown == Init /\ [][CooldownNext]_vars

\* Reconciliation over two channels, with block-list rows in the store.
ReconcileNext ==
    \/ Lifecycle(MaxChannels)
    \/ Reconcile
    \/ Block

SpecReconcile == Init /\ [][ReconcileNext]_vars

\* One human member and the automated account, with transfers.
BotsNext ==
    \/ Presence(Members \ {NumMembers})
    \/ Presence(Bots)
    \/ Coroutines(PanelChannels)
    \/ Transfer

SpecBots == Init /\ [][BotsNext]_vars

\* The store raises while a channel is being destroyed.
DestroyFault == \E t \in tasks : WakeDestroy(t, FALSE)

FaultsNext == Lifecycle(PanelChannels) \/ DestroyFault

SpecFaults == Init /\ [][FaultsNext]_vars

\* Invites next to the block list.
InviteBlockNext ==
    \/ Lifecycle(PanelChannels)
    \/ Invite
    \/ Block

SpecInviteBlock == Init /\ [][InviteBlockNext]_vars

\* Reconciliation over two channels with the store raising in a repair.
ReconcileFault ==
    \E bad \in db_voice_channels, done \in SUBSET db_voice_channels :
        OnReadyFault(bad, done)

ReconcileFaultsNext ==
    \/ Lifecycle(MaxChannels)
    \/ Reconcile
    \/ ReconcileFault

SpecReconcileFaults == Init /\ [][ReconcileFaultsNext]_vars

\* Kicks next to ownership transfers.
KickNext == Lifecycle(PanelChannels) \/ Transfer \/ Kick

SpecKick == Init /\ [][KickNext]_vars

\* Rename, limit, lock and kick.
FrameNext ==
    \/ Lifecycle(PanelChannels)
    \/ Rename
    \/ Limit({<<"7">>})
    \/ \E u \in Members : PressLock(u)
    \/ Kick

SpecFrame == Init /\ [][FrameNext]_vars

\* Transfers among two members and the automated account, the store healthy.
BotArrival == \E b \in Bots, c \in guild_channels : VoiceStateEvent(b, c)

Handover ==
    \/ \E u \in Members : PressTransfer(u)
    \/ \E v \in views, m \in Actors : SelectTransfer(v, m)
    \/ \E t \in tasks : TransferFinish(t, TRUE)

HandoverNext == Lifecycle(PanelChannels) \/ BotArrival \/ Handover

SpecHandover == Init /\ [][HandoverNext]_vars

\* The event loop runs every coroutine whose await has completed.
Fairness ==
    /\ \A m \in Members, c \in Channels :
          /\ WF_vars(CreateChannel(Task("create", m, NoChannel, "create_channel", NoMember),
                                   PanelChannels))
          /\ WF_vars(MoveAndRegister(Task("create", m, c, "move", NoMember)))
          /\ \A pc \in {"sleep", "sleep_again"} :
                WF_vars(WakeDestroy(Task("destroy", m, c, pc, NoMember), TRUE))
    /\ \A c \in Channels, pc \in {"delete", "delete_again"} :
          WF_vars(FinishDelete(Task("destroy", NoMember, c, pc, NoMember)))

FairSpec == Init /\ [][Lifecycle(PanelChannels)]_vars /\ Fairness

\* The same, with ownership transfers.
TransferFairness ==
    \A m \in Members, c \in Channels, n \in Actors :
        WF_vars(TransferFinish(Task("transfer", m, c, "demote", n), TRUE))

FairTransferSpec ==
    Init /\ [][Lifecycle(PanelChannels) \/ Transfer]_vars /\ Fairness /\ TransferFairness

\* One member and two channels under the loop clock.
RespawnNext ==
    \/ Presence(Members \ {NumMembers})
    \/ Coroutines(MaxChannels)
    \/ Tick

SpecRespawn == Init /\ [][RespawnNext]_vars

\* Two members and two channels, creation and destruction only.
SpecRooms == Init /\ [][Lifecycle(MaxChannels)]_vars

\* Reconciliation and transfers under the event loop's scheduling; on_ready
\* runs only when the gateway session starts, so it carries no fairness.
FairReconcileSpec == Init /\ [][Next]_vars /\ Fairness /\ TransferFairness

\* ------------------------------------------------------------------ claims
Abs(x) == IF x < 0 THEN 0 - x ELSE x
AdmittedTimes(m) == {a[2] : a \in {x \in admitted : x[1] = m}}

\* C1: for every actor, two admitted creations are at least cooldown_time
\* apart, and a presence event in the spawner channel is turned away exactly
\* when an admitted creation of the same actor lies less than cooldown_time
\* back; after the window the actor is admitted again.
C1_OneCreationPerWindow ==
    /\ [](\A m \in Members : \A t1, t2 \in AdmittedTimes(m) :
             t1 # t2 => Abs(t1 - t2) >= cooldown_time)
    /\ [][\A m \in Members :
             VoiceStateEvent(m, create_voice_channel_id) =>
                /\ last'.result \in {"cooldown", "admitted"}
                /\ last'.result = "cooldown" <=>
                      \E t \in AdmittedTimes(m) : loop_time - t < cooldown_time
                /\ last'.result = "admitted" =>
                      Task("create", m, NoChannel, "create_channel", NoMember) \in tasks'
                /\ last'.result = "cooldown" => tasks' = tasks]_vars

C1_Witness ==
    \E m \in Members :
        /\ Cardinality(AdmittedTimes(m)) = 2
        /\ last = Outcome("spawner", m, NoChannel, "cooldown")

\* C2: no resource has two owners, neither in the registry nor in the
\* voice_channels table.
C2_OneOwnerPerResource ==
    \A c \in Channels :
        /\ Cardinality({r \in db_voice_channels : r.channel_id = c}) <= 1
        /\ Cardinality({voice_channels[x] : x \in DOMAIN voice_channels \cap {c}}) <= 1

C2_Witness ==
    \E c \in DOMAIN voice_channels :
        /\ last = Outcome("transfer", last.actor, c, "transferred")
        /\ voice_channels[c] # last.actor
        /\ Row(c, voice_channels[c]) \in db_voice_channels

\* C3: a second run of load_voice_channels with the platform unchanged
\* leaves the rows, the block-list rows and the registry as the first run
\* left them.
C3_ReconcileIdempotent ==
    LET r1 == load_voice_channels(db_voice_channels, db_blocked_users,
                                  voice_channels, guild_channels)
        r2 == load_voice_channels(r1.rows, r1.blocked, r1.reg, guild_channels)
    IN /\ r2 = r1
       /\ last.op = "on_ready" =>
             r1 = [rows |-> db_voice_channels, blocked |-> db_blocked_users,
                   reg |-> voice_channels]

C3_Witness ==
    /\ last.op = "on_ready" /\ last.result = "repaired"
    /\ db_voice_channels # {}
    /\ \E c \in guild_channels : BlockRow(c, voice_channels[c]) \notin db_blocked_users
          /\ \E b \in db_blocked_users : b.channel_id = c

\* C4: unblock_user after block_user removes the row and gives the actor
\* back the connect overwrite held before the block; unblock_user on an
\* actor without a row changes neither the store nor the overwrite.
C4_BlockUnblockRoundTrip ==
    \A c \in guild_channels, u \in Members :
        LET rows1 == block_user_rows(db_blocked_users, c, u)
            ow1 == block_user_perms(overwrites, c, u)
            rows2 == unblock_user_rows(rows1, c, u)
            ow2 == unblock_user_perms(ow1, c, u)
        IN /\ BlockRow(c, u) \notin rows2
           /\ ow2[c][u].connect = overwrites[c][u].connect
           /\ BlockRow(c, u) \notin db_blocked_users =>
                 /\ unblock_user_rows(db_blocked_users, c, u) = db_blocked_users
                 /\ unblock_user_perms(overwrites, c, u) = overwrites

\* C5: an invite inside the window of the triple's newest record is rejected
\* and grants nothing; an invite that succeeds after the window appends a
\* record stamped with the time of that invite.
C5_InviteRateLimit ==
    [][/\ \A v \in views, u \in Members :
             (/\ SubmitInvite(v, u)
              /\ u # v.user
              /\ \E r \in db_user_invites :
                    /\ SameTriple(r, v.user, u, v.channel_id)
                    /\ wall_clock - r.invited_at < invite_cooldown_duration)
             => (last'.result = "rate_limited" /\ tasks' = tasks)
       /\ \A t \in tasks :
             (/\ InviteFinish(t)
              /\ last'.result = "invited"
              /\ ~check_invite_cooldown(db_user_invites, t.member, t.target,
                                        t.channel, wall_clock))
             => InviteRow(t.member, t.target, wall_clock, t.channel)
                   \in db_user_invites']_vars

\* C6: a transfer writes the store row and the registry entry together: a
\* finished transfer leaves both naming the new owner, at no await does the
\* registry name another owner than the row, and a failed store update
\* leaves the registry as it was.
C6_TransferAtomic ==
    /\ [](\A c \in DOMAIN voice_channels : \A r \in db_voice_channels :
             r.channel_id = c => r.owner_id = voice_channels[c])
    /\ [][\A t \in tasks :
             (TransferFinish(t, TRUE) /\ last'.result = "transferred") =>
                /\ t.channel \in DOMAIN voice_channels'
                /\ voice_channels'[t.channel] = t.target
                /\ Row(t.channel, t.target) \in db_voice_channels']_vars
    /\ [][\A t \in tasks :
             (TransferFinish(t, FALSE) /\ last'.result = "store_error") =>
                voice_channels' = voice_channels]_vars

\* C7: once R has passed from A to another owner, whatever A submits for R,
\* through a modal or a member select opened earlier, changes nothing.
C7_FormerOwnerRejected ==
    [][\A v \in views :
          (/\ v.channel_id \in DOMAIN voice_channels
           /\ voice_channels[v.channel_id] # v.user
           /\ \/ \E txt \in LimitTexts : SubmitLimit(v, txt)
              \/ \E m \in Members : SelectTransfer(v, m)
              \/ \E m \in Members : SubmitInvite(v, m)
              \/ \E m \in Members : SubmitBlock(v, m)
              \/ \E m \in Members : SelectUnblock(v, m))
          => UNCHANGED <<voice_channels, storeVars, platformVars>>]_vars

\* C8: when the recorded owner of R is out of R, either the owner comes back
\* or R leaves the store, the registry and the platform.
Removed(c) ==
    /\ c \notin DOMAIN voice_channels
    /\ c \notin guild_channels
    /\ \A r \in db_voice_channels : r.channel_id # c

C8_OwnerLeftDestroyed ==
    \A m \in Members, c \in Channels :
        (c \in DOMAIN voice_channels /\ voice_channels[c] = m /\ voice[m] # c)
            ~> (Removed(c) \/ voice[m] = c)

\* C9: every registry entry has a row in voice_channels with the same owner.
C9_RegistrySubsetOfStore ==
    \A c \in DOMAIN voice_channels : Row(c, voice_channels[c]) \in db_voice_channels

\* C10: a button press is rejected at the first failing check, in the order
\* in voice, managed, owner, exists, and a rejected press changes nothing.
FirstFailing(u) ==
    IF voice[u] = NoChannel THEN "not_in_voice"
    ELSE IF voice[u] \notin DOMAIN voice_channels THEN "not_managed"
    ELSE IF voice_channels[voice[u]] # u THEN "not_owner"
    ELSE IF voice[u] \notin guild_channels THEN "gone"
    ELSE "ok"

C10_ButtonChecksInOrder ==
    [][\A u \in Members :
          (PressLock(u) \/ PressLimit(u)) =>
              IF FirstFailing(u) = "ok"
              THEN last'.result \in {"locked", "unlocked", "modal"}
              ELSE /\ last'.result = FirstFailing(u)
                   /\ UNCHANGED <<voice_channels, storeVars, platformVars, cooldowns,
                                  tasks, views>>]_vars

C10_Witness ==
    /\ last.op = "lock" /\ last.result = "not_owner"
    /\ voice[last.actor] \in DOMAIN voice_channels
    /\ voice[last.actor] \in guild_channels

\* C11: a presence event of an actor who is not the recorded owner of R and
\* leaves R changes neither R's row, nor its registry entry, nor its platform
\* channel, and starts no destroy of R, whoever else is in R.
C11_NonOwnerLeaveKeepsResource ==
    [][\A m \in Members, a \in AnyChannel :
          (/\ VoiceStateEvent(m, a)
           /\ voice[m] \in DOMAIN voice_channels
           /\ voice_channels[voice[m]] # m
           /\ a # voice[m])
          => /\ UNCHANGED <<voice_channels, db_voice_channels, db_blocked_users,
                            guild_channels>>
             /\ \A t \in tasks' \ tasks : t.kind # "destroy"]_vars

C11_Witness ==
    \E c \in DOMAIN voice_channels \cap guild_channels :
        /\ last = Outcome("presence", last.actor, c, "ignored")
        /\ last.actor \in Members
        /\ voice_channels[c] # last.actor
        /\ voice[last.actor] # c
        /\ Occupants(c) = {}
        /\ Row(c, voice_channels[c]) \in db_voice_channels

\* C12: a presence event of an automated account changes nothing but the
\* account's own voice state: no resource, no cooldown stamp, no destroy,
\* also when it enters the spawner or is the recorded owner leaving.
C12_BotEventsIgnored ==
    [][\A b \in Bots, a \in AnyChannel :
          VoiceStateEvent(b, a) =>
              UNCHANGED <<voice_channels, cooldowns, storeVars, guild_channels,
                          next_channel_id, overwrites, user_limit, channel_name, tasks, views,
                          admitted>>]_vars

C12_Witness ==
    \E b \in Bots, c \in DOMAIN voice_channels :
        /\ last = Outcome("presence", b, c, "bot")
        /\ voice_channels[c] = b
        /\ voice[b] = create_voice_channel_id
        /\ b \notin DOMAIN cooldowns

\* C13: of two invite requests for one triple in flight inside one window at
\* most one succeeds: a request never reports success while a record of its
\* triple written inside the window is in the store.
C13_ConcurrentInvitesOneSucceeds ==
    [][\A t \in tasks :
          (InviteFinish(t) /\ last'.result = "invited") =>
              ~check_invite_cooldown(db_user_invites, t.member, t.target,
                                     t.channel, wall_clock)]_vars

\* C14: an invite of the inviter or of an actor on the block list is rejected,
\* grants nothing and writes no record; no invite removes a block-list row.
C14_InviteRejectsSelfAndBlocked ==
    [][/\ \A v \in views, u \in Members :
             (/\ SubmitInvite(v, u)
              /\ \/ u = v.user
                 \/ u \in get_blocked_users(db_blocked_users, v.channel_id))
             => /\ last'.result \in {"self", "blocked", "rate_limited", "gone"}
                /\ tasks' = tasks
                /\ UNCHANGED <<overwrites, db_user_invites>>
       /\ ((\E v \in views, u \in Members : SubmitInvite(v, u))
             \/ (\E t \in tasks : InviteFinish(t)))
             => db_blocked_users' = db_blocked_users]_vars

C14_Witness ==
    /\ last.op = "invite" /\ last.result = "blocked"
    /\ last.channel \in guild_channels
    /\ \E b \in db_blocked_users : b.channel_id = last.channel /\ b.user_id # last.actor

\* C15: the limit modal accepts exactly the integers 0..99 and sets the
\* channel's user limit to the accepted value; any other input leaves the
\* channel alone, so every channel's user limit stays within 0..99.
C15_Expected(txt) ==
    CASE txt = <<"0">> -> 0
      [] txt = <<"7">> -> 7
      [] txt = <<"9", "9">> -> 99
      [] txt = <<" ", "5">> -> 5
      [] OTHER -> 0 - 1

C15_LimitWithinRange ==
    /\ [](\A c \in Channels : user_limit[c] \in 0..99)
    /\ [][\A v \in views, txt \in LimitTexts :
             (SubmitLimit(v, txt) /\ v.channel_id \in guild_channels) =>
                 IF C15_Expected(txt) \in 0..99
                 THEN /\ user_limit' = [user_limit EXCEPT
                                           ![v.channel_id] = C15_Expected(txt)]
                      /\ last'.result = "limit_set"
                 ELSE /\ user_limit' = user_limit
                      /\ last'.result \in {"not_a_number", "out_of_range"}]_vars

C15_Witness ==
    /\ last.op = "limit" /\ last.result = "out_of_range"
    /\ last.channel \in guild_channels
    /\ user_limit[last.channel] = 99

\* C16: a managed resource that is empty does not stay in the registry and
\* on the platform with no occupants forever.
C16_EmptyResourceDestroyed ==
    \A c \in Channels :
        (c \in DOMAIN voice_channels /\ c \in guild_channels /\ Occupants(c) = {})
            ~> (c \notin DOMAIN voice_channels \/ c \notin guild_channels
                   \/ Occupants(c) # {})

\* C17 as stated: an attempt is admitted, and its time recorded, exactly when
\* the actor has no stamp or more than cooldown_time has passed since the
\* stamp; a refused attempt leaves the map as it was.
C17_AdmitsWhenExceeded ==
    [][\A m \in Members :
          VoiceStateEvent(m, create_voice_channel_id) =>
              IF m \notin DOMAIN cooldowns \/ loop_time - cooldowns[m] > cooldown_time
              THEN /\ last'.result = "admitted"
                   /\ cooldowns' = DictSet(cooldowns, m, loop_time)
              ELSE /\ last'.result = "cooldown"
                   /\ cooldowns' = cooldowns]_vars

\* C17 as amended: an attempt is admitted, and its time recorded, exactly
\* when the actor has no stamp or at least cooldown_time has passed since
\* the stamp; a refused attempt leaves the map as it was, and no attempt
\* changes another actor's stamp.
C17_AdmitsWhenElapsed ==
    [][\A m \in Members :
          VoiceStateEvent(m, create_voice_channel_id) =>
              IF m \notin DOMAIN cooldowns \/ loop_time - cooldowns[m] >= cooldown_time
              THEN /\ last'.result = "admitted"
                   /\ cooldowns' = DictSet(cooldowns, m, loop_time)
              ELSE /\ last'.result = "cooldown"
                   /\ cooldowns' = cooldowns]_vars

C17_Witness ==
    \E m \in Members :
        /\ last = Outcome("spawner", m, NoChannel, "admitted")
        /\ m \in DOMAIN cooldowns /\ cooldowns[m] = loop_time
        /\ <<m, loop_time - cooldown_time>> \in admitted
        /\ \E o \in DOMAIN cooldowns : o # m /\ cooldowns[o] # loop_time

\* C18: when the debounce expires with the owner back in R the destroy is
\* abandoned and R's row, registry entry and platform channel remain; no
\* presence event cancels a pending debounce, the check at expiry decides.
C18_ReturnedOwnerKeepsResource ==
    [][/\ \A t \in tasks :
             (WakeDestroy(t, TRUE) /\ voice[t.member] = t.channel) =>
                 /\ UNCHANGED <<voice_channels, storeVars, guild_channels>>
                 /\ tasks' = tasks \ {t}
                 /\ last'.result = "abandoned"
       /\ \A m \in Members, a \in AnyChannel :
             VoiceStateEvent(m, a) => tasks \subseteq tasks']_vars

C18_Witness ==
    \E c \in DOMAIN voice_channels \cap guild_channels :
        /\ last = Outcome("destroy", voice_channels[c], c, "abandoned")
        /\ voice[voice_channels[c]] = c
        /\ Row(c, voice_channels[c]) \in db_voice_channels

\* C19: when the platform channel was created and moving the actor into it
\* fails, the channel is registered all the same: its row with the actor as
\* owner is stored and the registry holds the entry.
C19_RegisteredWhenMoveFails ==
    [][\A t \in tasks :
          (MoveAndRegister(t) /\ t.channel \in guild_channels) =>
              /\ Row(t.channel, t.member) \in db_voice_channels'
              /\ t.channel \in DOMAIN voice_channels'
              /\ voice_channels'[t.channel] = t.member]_vars

\* C20: the sub-steps of delete_voice_channel are independent: when the
\* store step fails the registry entry is removed and the platform channel's
\* deletion is issued all the same.
C20_CleanupStepsIndependent ==
    [][\A t \in tasks, ok \in BOOLEAN :
          (WakeDestroy(t, ok) /\ OwnerAbsent(voice, t.member, t.channel)) =>
              /\ t.channel \notin DOMAIN voice_channels'
              /\ Task("destroy", NoMember, t.channel, "delete", NoMember) \in tasks']_vars

\* C21: a reconciler run deletes the row and the block-list rows of every
\* persisted resource that is absent from the platform and drops its registry
\* entry, and sets the registry entry of every present one to the row's owner.
C21_ReconcileRepairsEachRow ==
    [][OnReady =>
          \A r \in db_voice_channels :
              IF r.channel_id \in guild_channels
              THEN /\ r \in db_voice_channels'
                   /\ r.channel_id \in DOMAIN voice_channels'
                   /\ voice_channels'[r.channel_id] = r.owner_id
              ELSE /\ r \notin db_voice_channels'
                   /\ \A b \in db_blocked_users' : b.channel_id # r.channel_id
                   /\ r.channel_id \notin DOMAIN voice_channels']_vars

\* C22: when the repair of one persisted resource fails during a reconciler
\* run, every other persisted resource is still reconciled in that run:
\* absent ones are deleted, present ones are loaded into the registry.
C22_ReconcileFailureIsolated ==
    [][\A bad \in db_voice_channels, done \in SUBSET db_voice_channels :
          OnReadyFault(bad, done) =>
              \A r \in db_voice_channels \ {bad} :
                  IF r.channel_id \in guild_channels
                  THEN /\ r.channel_id \in DOMAIN voice_channels'
                       /\ voice_channels'[r.channel_id] = r.owner_id
                  ELSE r \notin db_voice_channels']_vars

\* C23: a transfer that fails leaves no partial state: the store row and the
\* registry still name the old owner, and the old owner is still the only
\* holder of the elevated overwrite on the channel.
C23_FailedTransferLeavesOldOwner ==
    [][\A t \in tasks, ok \in BOOLEAN :
          (/\ TransferFinish(t, ok)
           /\ last'.result \in {"store_error", "platform_error"}
           /\ t.channel \in guild_channels
           /\ is_channel_owner(voice_channels, t.member, t.channel))
          => /\ UNCHANGED <<db_voice_channels, voice_channels>>
             /\ \A x \in Actors :
                   overwrites'[t.channel][x].elevated <=> x = t.member]_vars

\* C24: an invite whose store operation fails is aborted: an invite that
\* reports success and grants connect always leaves a record of its triple
\* inside the window, which gates the next invite.
C24_GrantedInviteHasGate ==
    [][\A t \in tasks :
          (InviteFinish(t) /\ last'.result = "invited") =>
              \E r \in db_user_invites' :
                  /\ SameTriple(r, t.member, t.target, t.channel)
                  /\ wall_clock - r.invited_at < invite_cooldown_duration]_vars

\* C25: the lock button writes inherited for the default role's connect when
\* it was denied and denied otherwise, touching no other overwrite: after a
\* toggle the value is denied or inherited, toggles alternate between the
\* two, and the allow written at creation never comes back.
C25_LockToggleAlternates ==
    /\ []((/\ last.op = "lock" /\ last.result \in {"locked", "unlocked"}
           /\ last.channel \in guild_channels)
          => overwrites[last.channel][default_role].connect =
                 IF last.result = "locked" THEN "deny" ELSE "inherit")
    /\ [][\A u \in Members :
             (PressLock(u) /\ Accepted(u)) =>
                 LET c == voice[u]
                     was == overwrites[c][default_role].connect
                 IN /\ was \in {"allow", "inherit"} =>
                          overwrites'[c][default_role] = ConnectOnly("deny")
                    /\ was = "deny" =>
                          overwrites'[c][default_role] = ConnectOnly("inherit")
                    /\ \A x \in Actors : overwrites'[c][x] = overwrites[c][x]]_vars

C25_Witness ==
    /\ last.op = "lock" /\ last.result = "unlocked"
    /\ last.channel \in guild_channels
    /\ overwrites[last.channel][default_role].connect = "inherit"

\* C26: a kick relocates an actor out of R only when the actor is in R and
\* is not the recorded owner of R at that moment, also when it is completed
\* through a member list opened before a transfer.
C26_KickSparesOwner ==
    [][\A v \in views, m \in Actors :
          (SelectKick(v, m) /\ voice'[m] # voice[m]) =>
              /\ voice[m] = v.channel_id
              /\ ~is_channel_owner(voice_channels, m, v.channel_id)]_vars

\* C27: block_user(R, U) leaves the one row (R, U) and no other new row, sets
\* U's connect overwrite on R to denied and disconnects U from R; applied to
\* an actor already blocked it adds no row and leaves the same store and
\* overwrites.
C27_BlockUserIdempotent ==
    /\ [](\A c \in guild_channels, u \in Members :
             LET rows1 == block_user_rows(db_blocked_users, c, u)
                 ow1 == block_user_perms(overwrites, c, u)
             IN /\ BlockRow(c, u) \in rows1
                /\ rows1 \ {BlockRow(c, u)} = db_blocked_users \ {BlockRow(c, u)}
                /\ ow1[c][u].connect = "deny"
                /\ \A x \in Targets \ {u} : ow1[c][x] = overwrites[c][x]
                /\ block_user_rows(rows1, c, u) = rows1
                /\ block_user_perms(ow1, c, u) = ow1
                /\ BlockRow(c, u) \in db_blocked_users => rows1 = db_blocked_users)
    /\ [][/\ \A v \in views, u \in Members :
                (SubmitBlock(v, u) /\ u # v.user) =>
                    /\ BlockRow(v.channel_id, u) \in db_blocked_users'
                    /\ Cardinality(db_blocked_users') <= Cardinality(db_blocked_users) + 1
          /\ \A t \in tasks :
                (BlockFinish(t) /\ t.channel \in guild_channels) =>
                    /\ overwrites'[t.channel][t.target].connect = "deny"
                    /\ voice'[t.target] # t.channel
                    /\ UNCHANGED db_blocked_users]_vars

C27_Witness ==
    \E c \in guild_channels, u \in Members :
        /\ last = Outcome("block", u, c, "blocked")
        /\ BlockRow(c, u) \in db_blocked_users
        /\ overwrites[c][u].connect = "deny"
        /\ voice[u] = NoChannel
        /\ c \in DOMAIN voice_channels /\ voice[voice_channels[c]] = c

\* C28: rename, limit, lock and kick leave the store, the registry and the
\* cooldown map as they were; rename changes only the channel's name, the
\* limit only its user limit, lock only the default role's overwrite and kick
\* only the kicked actor's voice state.
C28_Same(changed) ==
    /\ UNCHANGED <<storeVars, voice_channels, cooldowns, guild_channels>>
    /\ "name" \notin changed => UNCHANGED channel_name
    /\ "limit" \notin changed => UNCHANGED user_limit
    /\ "overwrite" \notin changed => UNCHANGED overwrites
    /\ "voice" \notin changed => UNCHANGED voice

C28_PanelFrame ==
    [][/\ (\E u \in Members : PressRename(u) \/ PressLimit(u) \/ PressKick(u))
             => C28_Same({})
       /\ (\E v \in views, txt \in RenameTexts : SubmitRename(v, txt))
             => C28_Same({"name"})
       /\ (\E v \in views : SubmitLimit(v, <<"7">>)) => C28_Same({"limit"})
       /\ \A u \in Members :
             PressLock(u) =>
                 /\ C28_Same({"overwrite"})
                 /\ \A c \in Channels, x \in Actors :
                       overwrites'[c][x] = overwrites[c][x]
       /\ \A v \in views, m \in Actors :
             SelectKick(v, m) =>
                 /\ C28_Same({"voice"})
                 /\ \A x \in Actors \ {m} : voice'[x] = voice[x]]_vars

C28_Witness ==
    \E c \in DOMAIN voice_channels \cap guild_channels :
        /\ last.op = "kick" /\ last.result = "kicked" /\ last.channel = c
        /\ channel_name[c] = ChannelName(default_channel_prefix, "den")
        /\ user_limit[c] = 7
        /\ overwrites[c][default_role].connect = "deny"
        /\ Row(c, voice_channels[c]) \in db_voice_channels

\* C29: every block-list row belongs to a resource that has a row in
\* voice_channels.
C29_BlockRowsHaveResource ==
    \A b \in db_blocked_users :
        \E r \in db_voice_channels : r.channel_id = b.channel_id

\* C30: with no transfer in flight, the only actor holding the elevated
\* overwrite on a managed channel is the registry's recorded owner.
C30_OnlyOwnerElevated ==
    \A c \in DOMAIN voice_channels \cap guild_channels :
        (\A t \in tasks : ~(t.kind = "transfer" /\ t.channel = c))
            => \A x \in Actors : overwrites[c][x].elevated <=> x = voice_channels[c]

\* C31: a handler that finds its channel gone from the platform changes no
\* state, and a reconciler pass follows it: the registry entry and the row of
\* the vanished channel are eventually removed.
C31_VanishedTriggersReconcile ==
    /\ [][\A v \in views, m \in Actors :
             (SelectTransfer(v, m) /\ v.channel_id \notin guild_channels) =>
                 UNCHANGED <<voice_channels, storeVars, platformVars, tasks>>]_vars
    /\ \A c \in Channels :
          (last.result = "gone" /\ last.channel = c /\ c \notin guild_channels)
              ~> (/\ c \notin DOMAIN voice_channels
                  /\ \A r \in db_voice_channels : r.channel_id # c)

\* C32: when a pending destroy invokes delete_voice_channel for R, the actor
\* the registry records as owner of R at that moment is absent from R: a
\* destroy started by a former owner's leave never deletes R once ownership
\* has passed to an actor present in R.
C32_DestroyChecksCurrentOwner ==
    [][\A t \in tasks :
          (/\ WakeDestroy(t, TRUE)
           /\ last'.result = "rows_deleted"
           /\ t.channel \in DOMAIN voice_channels)
          => voice[voice_channels[t.channel]] # t.channel]_vars

\* C33: no actor is the registry's recorded owner of two resources: an owner
\* of a live resource who enters the spawner channel again does not end up
\* owning two registered resources.
C33_OneResourcePerOwner ==
    \A c1, c2 \in DOMAIN voice_channels :
        voice_channels[c1] = voice_channels[c2] => c1 = c2

\* C34: a presence event of the recorded owner that leaves the owner in the
\* owner's own resource (mute, deafen) destroys nothing: the event changes
\* neither store, registry nor channel, and when the debounce it starts
\* expires the owner is found present and the destroy is abandoned.
C34_OwnerStayKeepsResource ==
    /\ [][\A m \in Members :
             (VoiceStateEvent(m, voice[m])
                 /\ is_channel_owner(voice_channels, m, voice[m])) =>
                 /\ UNCHANGED <<voice_channels, storeVars, guild_channels, voice>>
                 /\ \E pc \in {"sleep", "sleep_again"} :
                       tasks' = tasks \cup
                                   {Task("destroy", m, voice[m], pc, NoMember)}]_vars
    /\ [][\A m \in Members, c \in Channels, pc \in {"sleep", "sleep_again"} :
             (/\ last = Outcome("presence", m, c, "owner_left")
              /\ voice[m] = c
              /\ WakeDestroy(Task("destroy", m, c, pc, NoMember), TRUE))
             => /\ last' = Outcome("destroy", m, c, "abandoned")
                /\ UNCHANGED <<voice_channels, storeVars, platformVars>>
                /\ tasks' = tasks \ {Task("destroy", m, c, pc, NoMember)}]_vars

C34_Witness ==
    \E m \in Members, c \in guild_channels :
        /\ last = Outcome("presence", m, c, "owner_left")
        /\ voice[m] = c
        /\ is_channel_owner(voice_channels, m, c)
        /\ Task("destroy", m, c, "sleep", NoMember) \in tasks
        /\ Row(c, m) \in db_voice_channels

\* C35: with no operation in flight, no actor with a block-list row for a
\* live resource R holds an explicit connect allow overwrite on R, however
\* block, invite and transfer were interleaved.
C35_BlockedNeverAllowed ==
    tasks = {} =>
        \A b \in db_blocked_users :
            b.channel_id \in guild_channels =>
                overwrites[b.channel_id][b.user_id].connect # "allow"

\* C36: a destroy that reaches delete_voice_channel for a resource another
\* destroy has already removed has no further effect: store and registry stay
\* as they are, rows and entries of other resources included, the NotFound
\* of the second channel deletion is handled, and the resource ends removed
\* as after a single destroy.
C36_SecondDestroyNoEffect ==
    /\ [][\A t \in tasks :
             (/\ WakeDestroy(t, TRUE)
              /\ OwnerAbsent(voice, t.member, t.channel)
              /\ t.channel \notin DOMAIN voice_channels)
             => /\ UNCHANGED <<voice_channels, storeVars, platformVars>>
                /\ last'.result = "rows_deleted"]_vars
    /\ [][\A t \in tasks :
             (FinishDelete(t) /\ t.channel \notin guild_channels)
             => /\ UNCHANGED <<voice_channels, storeVars, platformVars>>
                /\ last'.result = "not_found"
                /\ tasks' = tasks \ {t}
                /\ Removed(t.channel)']_vars
    /\ [][\A t \in tasks, c \in Channels :
             ((WakeDestroy(t, TRUE) \/ FinishDelete(t)) /\ c # t.channel)
             => /\ c \in DOMAIN voice_channels <=> c \in DOMAIN voice_channels'
                /\ \A r \in db_voice_channels :
                      r.channel_id = c => r \in db_voice_channels'
                /\ c \in guild_channels <=> c \in guild_channels']_vars

C36_Witness ==
    \E c \in Channels, o \in DOMAIN voice_channels \cap guild_channels :
        /\ last = Outcome("destroy", NoMember, c, "not_found")
        /\ Removed(c)
        /\ Row(o, voice_channels[o]) \in db_voice_channels
        /\ tasks = {}

\* C37: a transfer makes an actor the recorded owner of R only when the
\* actor is in R as the transfer executes: a selection submitted for an actor
\* who has left R grants nothing and never reaches the registry.
C37_TransferToPresentOnly ==
    [][/\ \A v \in views, m \in Actors :
             (SelectTransfer(v, m) /\ voice[m] # v.channel_id) =>
                 UNCHANGED <<overwrites, tasks, voice_channels, db_voice_channels>>
       /\ \A t \in tasks :
             (TransferFinish(t, TRUE) /\ last'.result = "transferred") =>
                 voice[t.target] = t.channel]_vars

\* C38: after a transfer of R from its creator A to B, R's lifecycle follows
\* B: A leaving R starts no destroy and changes nothing of R, and B leaving R
\* and staying away ends with R removed.
C38_CreatedBy(c, m) ==
    channel_name[c] = ChannelName(default_channel_prefix, display_name(m))

C38_LifecycleFollowsNewOwner ==
    /\ [][\A A \in Members, B \in Actors, a \in AnyChannel :
             (/\ VoiceStateEvent(A, a)
              /\ A # B
              /\ voice[A] \in DOMAIN voice_channels \cap guild_channels
              /\ C38_CreatedBy(voice[A], A)
              /\ voice_channels[voice[A]] = B
              /\ a # voice[A])
             => /\ UNCHANGED <<voice_channels, storeVars, guild_channels>>
                /\ \A t \in tasks' \ tasks : t.kind # "destroy"]_vars
    /\ \A A \in Members, B \in Members, c \in Channels :
          (/\ A # B
           /\ c \in DOMAIN voice_channels \cap guild_channels
           /\ C38_CreatedBy(c, A)
           /\ voice_channels[c] = B
           /\ voice[B] # c)
              ~> (Removed(c) \/ voice[B] = c)

====
